---- MODULE Spec2Model ----
(***************************************************************************)
(* s3-deletion-visualizer (src/main.rs): the segment index, the per-object *)
(* state store (State::set_item), the k-way merge of the event streams,    *)
(* their grouping into batches by bucket, the per-batch frame loop of      *)
(* main, and the raster of a frame (State::new, State::get_frame).         *)
(*                                                                         *)
(* Vec indices are 0-based as in the source; a TLA+ sequence element i+1   *)
(* holds the Vec element i.  An Option is a sequence of length 0 or 1.     *)
(* A DateTime<Utc> is a number of ticks, TicksPerSec ticks to the second.  *)
(***************************************************************************)
EXTENDS Integers, Sequences, FiniteSets, TLC

\* ---------------------------------------------------------------- bounds
\* sub-second resolution of the modelled DateTime
TicksPerSec == 2
\* the latest bucket, in ticks; buckets are drawn from {0, 1, MaxTick}
MaxTick == 4
\* number of event files (source streams)
NumStreams == 2
\* events over all streams, in the inputs about the life cycle and the merge
MaxEvents == 3
\* the longer of the two item lists of the inputs about the merge
MaxItems == 2
\* events of the one batch, in the inputs about batches
MaxBatchEvents == 2
\* events over all streams, in the inputs about addressing
MaxStoreEvents == 2
\* largest item number of an event, in the inputs about addressing
MaxItem == 3
\* segment descriptors, largest segment id and largest object count
MaxSegs == 2
MaxSegId == 3
MaxNum == 2
\* events over all streams, in the inputs about the effect of an item
MaxEffectEvents == 1
\* events and the longest item list, in the inputs about the order of the
\* states
MaxRankEvents == 3
MaxRankItems == 3
\* the largest of the small object counts, and the number of leading objects
\* whose state is kept one by one, in the inputs about the raster
MaxRasterTotal == 5
MaxRasterHead == 2
\* the most decimal digits of a frame index, in the inputs about frame names
MaxIndexDigits == 5

\* usize::MAX, what a wrapping usize subtraction from 0 gives (a release
\* build); the model only needs it to exceed every Vec length
USIZE_MAX == 2147483647

\* ------------------------------------------------------------ data types
Operations == {"Delete", "Expire"}

FileStates == {"Present", "DeleteMarker", "Expired", "DeleteMarkerDeleted", "WeirdCase"}

Segment(s, n) == [segment |-> s, num |-> n]

Event(b, op, s, its) == [bucket |-> b, operation |-> op, segment |-> s, items |-> its]

\* ------------------------------------------------ segment index (main)
\* segments.sort_by_key(|v| v.segment): a stable sort
RECURSIVE InsertByKey(_, _)
InsertByKey(sorted, x) ==
    IF sorted = <<>> THEN <<x>>
    ELSE IF x.segment < Head(sorted).segment THEN <<x>> \o sorted
    ELSE <<Head(sorted)>> \o InsertByKey(Tail(sorted), x)

RECURSIVE SortByKey(_)
SortByKey(segs) ==
    IF segs = <<>> THEN <<>>
    ELSE InsertByKey(SortByKey(SubSeq(segs, 1, Len(segs) - 1)), segs[Len(segs)])

\* segments.iter().map(|v| v.num).sum()
RECURSIVE TotalFiles(_)
TotalFiles(segs) ==
    IF segs = <<>> THEN 0 ELSE Head(segs).num + TotalFiles(Tail(segs))

\* a scan that gives the running total after each segment, not before it
RECURSIVE Scan_Inclusive(_, _)
Scan_Inclusive(acc, segs) ==
    IF segs = <<>> THEN <<>>
    ELSE <<acc + Head(segs).num>> \o Scan_Inclusive(acc + Head(segs).num, Tail(segs))

\* segments.iter().scan(0, |acc, x| { old = *acc; *acc += x.num; Some(old) })
RECURSIVE Scan(_, _)
Scan(acc, segs) ==
    IF segs = <<>> THEN <<>>
    ELSE <<acc>> \o Scan(acc + Head(segs).num, Tail(segs))

\* State::new: ((length as f64).sqrt() as usize) + 1
RECURSIVE SqrtFloor(_, _)
SqrtFloor(n, r) == IF (r + 1) * (r + 1) > n THEN r ELSE SqrtFloor(n, r + 1)

ImageSize(length) == SqrtFloor(length, 0) + 1

\* ------------------------------------------------------- State::set_item
\* The (operation, state) match of set_item; "panic" is its catch-all arm.
MatchOperation_NoWeirdArm(operation, item) ==
    CASE operation = "Delete" /\ item = "Present" -> "DeleteMarker"
      [] operation = "Expire" /\ item = "DeleteMarker" -> "Expired"
      [] operation = "Expire" /\ item = "Expired" -> "DeleteMarkerDeleted"
      [] operation = "Delete" /\ item = "DeleteMarker" -> "DeleteMarkerDeleted"
      [] operation = "Expire" /\ item = "Present" -> "DeleteMarkerDeleted"
      [] operation = "Delete" /\ item = "DeleteMarkerDeleted" -> "WeirdCase"
      [] operation = "Expire" /\ item = "DeleteMarkerDeleted" -> "WeirdCase"
      [] OTHER -> "panic"

\* a match in which the Delete of a delete marker brings the object back
MatchOperation_DeleteRestores(operation, item) ==
    CASE operation = "Delete" /\ item = "Present" -> "DeleteMarker"
      [] operation = "Expire" /\ item = "DeleteMarker" -> "Expired"
      [] operation = "Expire" /\ item = "Expired" -> "DeleteMarkerDeleted"
      [] operation = "Delete" /\ item = "DeleteMarker" -> "Present"
      [] operation = "Expire" /\ item = "Present" -> "DeleteMarkerDeleted"
      [] operation = "Delete" /\ item = "DeleteMarkerDeleted" -> "WeirdCase"
      [] operation = "Expire" /\ item = "DeleteMarkerDeleted" -> "WeirdCase"
      [] item = "WeirdCase" -> "WeirdCase"
      [] OTHER -> "panic"

MatchOperation(operation, item) ==
    CASE operation = "Delete" /\ item = "Present" -> "DeleteMarker"
      [] operation = "Expire" /\ item = "DeleteMarker" -> "Expired"
      [] operation = "Expire" /\ item = "Expired" -> "DeleteMarkerDeleted"
      [] operation = "Delete" /\ item = "DeleteMarker" -> "DeleteMarkerDeleted"
      [] operation = "Expire" /\ item = "Present" -> "DeleteMarkerDeleted"
      [] operation = "Delete" /\ item = "DeleteMarkerDeleted" -> "WeirdCase"
      [] operation = "Expire" /\ item = "DeleteMarkerDeleted" -> "WeirdCase"
      [] item = "WeirdCase" -> "WeirdCase"
      [] OTHER -> "panic"

\* let offset = self.offsets[segment - 1]; let idx = offset + number - 1;
\* usize arithmetic: with overflow checks (a debug build) a subtraction from
\* 0 panics, without them (a release build) it wraps to usize::MAX.
\* Result: how the lookup ends ("ok", or the panic it raises) and, when the
\* lookup gets that far, the offset and the index.
\* a lookup that takes the item numbers to start at 0
Locate_NumberFromZero(offs, segment, number, checks) ==
    IF segment = 0 /\ checks
    THEN [end |-> "overflow", offset |-> 0, idx |-> 0]
    ELSE LET slot == IF segment = 0 THEN USIZE_MAX ELSE segment - 1
         IN  IF slot >= Len(offs)
             THEN [end |-> "bounds", offset |-> 0, idx |-> 0]
             ELSE [end |-> "ok", offset |-> offs[slot + 1], idx |-> offs[slot + 1] + number]

Locate(offs, segment, number, checks) ==
    IF segment = 0 /\ checks
    THEN [end |-> "overflow", offset |-> 0, idx |-> 0]
    ELSE LET slot == IF segment = 0 THEN USIZE_MAX ELSE segment - 1
         IN  IF slot >= Len(offs)
             THEN [end |-> "bounds", offset |-> 0, idx |-> 0]
             ELSE LET offset == offs[slot + 1]
                      sum == offset + number
                  IN  IF sum = 0 /\ checks
                      THEN [end |-> "overflow", offset |-> offset, idx |-> 0]
                      ELSE [end |-> "ok", offset |-> offset,
                            idx |-> IF sum = 0 THEN USIZE_MAX ELSE sum - 1]

\* set_item with the state read at the segment's offset instead of at idx
SetItem_ReadsAtOffset(offs, fs, segment, number, operation, checks) ==
    LET loc == Locate(offs, segment, number, checks)
    IN  IF loc.end # "ok" THEN [files |-> fs, end |-> loc.end]
        ELSE IF loc.idx >= Len(fs) THEN [files |-> fs, end |-> "diagnostic"]
        ELSE LET next == MatchOperation(operation, fs[loc.offset + 1])
             IN  IF next = "panic" THEN [files |-> fs, end |-> "transition"]
                 ELSE [files |-> [fs EXCEPT ![loc.idx + 1] = next], end |-> "ok"]

\* set_item with the new state written at the segment's offset instead of idx
SetItem_WritesAtOffset(offs, fs, segment, number, operation, checks) ==
    LET loc == Locate(offs, segment, number, checks)
    IN  IF loc.end # "ok" THEN [files |-> fs, end |-> loc.end]
        ELSE IF loc.idx >= Len(fs) THEN [files |-> fs, end |-> "diagnostic"]
        ELSE LET next == MatchOperation(operation, fs[loc.idx + 1])
             IN  IF next = "panic" THEN [files |-> fs, end |-> "transition"]
                 ELSE [files |-> [fs EXCEPT ![loc.offset + 1] = next], end |-> "ok"]

\* set_item: the files afterwards and how the call ends: "ok", or the panic
\* ("bounds": offsets[segment - 1] out of bounds; "overflow": arithmetic
\* overflow; "diagnostic": files.get_mut(idx) is None; "transition": the
\* catch-all arm of the match).
SetItem(offs, fs, segment, number, operation, checks) ==
    LET loc == Locate(offs, segment, number, checks)
    IN  IF loc.end # "ok" THEN [files |-> fs, end |-> loc.end]
        ELSE IF loc.idx >= Len(fs) THEN [files |-> fs, end |-> "diagnostic"]
        ELSE LET next == MatchOperation(operation, fs[loc.idx + 1])
             IN  IF next = "panic" THEN [files |-> fs, end |-> "transition"]
                 ELSE [files |-> [fs EXCEPT ![loc.idx + 1] = next], end |-> "ok"]

\* --------------------------------------------------------- frame (main)
\* key.timestamp(): whole seconds
Timestamp(t) == t \div TicksPerSec

\* i64 division, which truncates toward zero
Abs(a) == IF a < 0 THEN -a ELSE a

TruncDiv(a, b) ==
    IF (a < 0) = (b < 0) THEN Abs(a) \div Abs(b)
    ELSE -(Abs(a) \div Abs(b))

\* a division by max(1, d) in place of the checked division
CheckedDivOrZero_MaxOne(a, d) == TruncDiv(a, IF d = 0 THEN 1 ELSE d)

\* total_actions.checked_div(d).unwrap_or(0)
CheckedDivOrZero(a, d) == IF d = 0 THEN 0 ELSE TruncDiv(a, d)

\* a count that leaves out the first object
CountState_FirstLeftOut(fs, st) == Cardinality({i \in 2..Len(fs) : fs[i] = st})

\* state.files.iter().filter(|s| **s == st).count()
CountState(fs, st) == Cardinality({i \in 1..Len(fs) : fs[i] = st})

\* format!("{:0width$}", idx, width = 4): the decimal digits, most
\* significant first, left-padded with zeros to at least 4 digits
RECURSIVE Digits(_)
Digits(n) == IF n < 10 THEN <<n>> ELSE Digits(n \div 10) \o <<n % 10>>

RECURSIVE PadZero(_, _)
PadZero(ds, width) == IF Len(ds) >= width THEN ds ELSE PadZero(<<0>> \o ds, width)

FrameName(idx) == PadZero(Digits(idx), 4)

\* ---------------------------------------------- State::new, get_frame
\* Object counts and pixel indices go past 2^31, so they are kept as wide
\* numbers <<hi, lo>> of value hi * WideBase + lo, 0 <= lo < WideBase.
WideBase == 32768

\* 2^32 = U32Hi * WideBase: a u32 holds the wide numbers with hi < U32Hi
U32Hi == 131072

Wide(n) == <<n \div WideBase, n % WideBase>>

\* w + n, for a small number n
WideAdd(w, n) == <<w[1] + ((w[2] + n) \div WideBase), (w[2] + n) % WideBase>>

\* a * b, for numbers a, b below 2^20
WideMul(a, b) ==
    LET ah == a \div WideBase
        al == a % WideBase
        bh == b \div WideBase
        bl == b % WideBase
    IN  <<(ah * bh * WideBase) + (ah * bl) + (al * bh) + ((al * bl) \div WideBase),
          (al * bl) % WideBase>>

WideLess(v, w) == v[1] < w[1] \/ (v[1] = w[1] /\ v[2] < w[2])

\* what a wrapping u32 operation keeps of its exact result
WrapU32(w) == <<w[1] % U32Hi, w[2]>>

\* (length as f64).sqrt() as usize: the largest r in lo .. hi with
\* r * r <= length (an f64 holds lengths below 2^52 exactly and its sqrt is
\* correctly rounded, so the cast gives the integer square root)
RECURSIVE SqrtFloorWide(_, _, _)
SqrtFloorWide(length, lo, hi) ==
    IF lo = hi THEN lo
    ELSE LET mid == (lo + hi + 1) \div 2
         IN  IF WideLess(length, WideMul(mid, mid))
             THEN SqrtFloorWide(length, lo, mid - 1)
             ELSE SqrtFloorWide(length, mid, hi)

\* State::new, line 83, for a length below 2^40
ImageSizeWide(length) == SqrtFloorWide(length, 0, 1048575) + 1

\* a Vec<FileState> of any length: its length, the states of its first
\* objects one by one, every later object being Present
FilesNew(total_size) ==
    [len |-> total_size,
     head |-> [i \in 1..(IF total_size[1] = 0 /\ total_size[2] < MaxRasterHead
                         THEN total_size[2] ELSE MaxRasterHead) |-> "Present"]]

\* self.files.get(idx as usize)
FilesGet(fs, at) ==
    IF ~WideLess(at, fs.len) THEN <<>>
    ELSE IF at[1] = 0 /\ at[2] < Len(fs.head) THEN <<fs.head[at[2] + 1]>>
    ELSE <<"Present">>

\* impl From<&FileState> for Rgb<u8>
Rgb(v) ==
    CASE v = "Present" -> <<0, 255, 0>>
      [] v = "DeleteMarker" -> <<255, 255, 0>>
      [] v = "Expired" -> <<255, 0, 0>>
      [] v = "DeleteMarkerDeleted" -> <<0, 0, 0>>
      [] v = "WeirdCase" -> <<0, 0, 0>>

\* the closure of get_frame, up to idx: row_idx = y * image_size, idx =
\* row_idx + x, in u32 arithmetic: with overflow checks a result of 2^32 or
\* more panics, without them it wraps
PixelIdx(side, x, y, checks) ==
    LET product == WideMul(y, side)
        row_idx == WrapU32(product)
        sum == WideAdd(row_idx, x)
    IN  IF checks /\ (product[1] >= U32Hi \/ sum[1] >= U32Hi)
        THEN [end |-> "overflow", idx |-> <<0, 0>>]
        ELSE [end |-> "ok", idx |-> WrapU32(sum)]

\* the closure of get_frame: the colour of pixel (x, y), or the panic
GetFramePixel(fs, side, x, y, checks) ==
    LET at == PixelIdx(side, x, y, checks)
    IN  IF at.end # "ok" THEN at.end
        ELSE IF FilesGet(fs, at.idx) = <<>> THEN <<0, 0, 0>>
        ELSE Rgb(FilesGet(fs, at.idx)[1])

\* ------------------------------------------------------------- the state
VARIABLES
    overflow_checks,     \* the build: TRUE when usize arithmetic is checked
    segments,            \* main: the Segment records read, sorted by BuildIndex
    streams,             \* the event files: per stream, its events in file order
    pos,                 \* event_iterators: per stream, the events already read
    offsets,             \* State.offsets
    files,               \* State.files
    image_size,          \* State.image_size
    pc,                  \* where main is
    panic,               \* "none", or the panic that ended the run
    buffered,            \* group_by: the element read ahead that opens the next group
    key,                 \* the bucket of the current group
    enumerate,           \* enumerate(): the index the next group gets
    idx,                 \* the index of the current group
    previous_date_time,  \* Option<DateTime>
    first_date_time,     \* Option<DateTime>
    previous_group,      \* main: the bucket the rate is measured from
    total_actions,       \* main: items of the current group so far
    event,               \* Option: the event of the inner loop
    items,               \* the items of that event not yet applied
    frames,              \* the frames saved, in order
    groups,              \* history: per group, its key and the events it was given
    calls,               \* history: the set_item calls made, in order
    batch_pre,           \* history: State.files when the current group began
    raster               \* a State of any size and a pixel of its frame (see StateNew)

\* the variables of main
main_vars == <<overflow_checks, segments, streams, pos, offsets, files, image_size, pc, panic,
               buffered, key, enumerate, idx, previous_date_time, first_date_time,
               previous_group, total_actions, event, items, frames, groups, calls, batch_pre>>

vars == <<main_vars, raster>>

\* ------------------------------------------------------------ the inputs
Buckets == {0, 1, MaxTick}

SeqsUpTo(S, n) == UNION {[1..m -> S] : m \in 0..n}

\* one event file: events in non-decreasing bucket order
SortedSeqs(E, n) ==
    {s \in SeqsUpTo(E, n) : \A i \in 1..(Len(s) - 1) : s[i].bucket <= s[i + 1].bucket}

\* k event files holding at most n events between them
RECURSIVE StreamSets(_, _, _)
StreamSets(E, n, k) ==
    IF k = 0 THEN {<<>>}
    ELSE UNION {{<<s>> \o r : r \in StreamSets(E, n - Len(s), k - 1)} : s \in SortedSeqs(E, n)}

\* segment files: descriptors with distinct ids, in any order
SegInputs ==
    {s \in SeqsUpTo([segment : 1..MaxSegId, num : 0..MaxNum], MaxSegs) :
        \A i, j \in 1..Len(s) : i # j => s[i].segment # s[j].segment}

\* The inputs are families of segment files and k event files.
\* Inputs about the index: any segment table; one event file with at most
\* one event, which names any segment
IndexInputs(k) ==
    [segments : SegInputs,
     streams : {[s \in 1..k |-> IF s = 1 THEN es ELSE <<>>] :
                   es \in SeqsUpTo([bucket : {0}, operation : {"Delete"},
                                    segment : 0..MaxSegId, items : {<<>>, <<1>>}], 1)}]

\* Inputs about the life cycle: one object, events of either operation
LifeInputs(k) ==
    [segments : {<<Segment(1, 1)>>},
     streams : StreamSets([bucket : Buckets, operation : Operations, segment : {1},
                           items : {<<1>>}], MaxEvents, k)]

\* Inputs about the merge: one object, events at any buckets with one item
\* or MaxItems items
MergeInputs(k) ==
    [segments : {<<Segment(1, 1)>>},
     streams : StreamSets([bucket : Buckets, operation : {"Delete"}, segment : {1},
                           items : {<<1>>, [i \in 1..MaxItems |-> 1]}],
                          MaxEvents, k)]

\* Inputs about batches: one segment, events of one bucket, each of either
\* operation on one of the objects
BatchInputs(k) ==
    [segments : {<<Segment(1, MaxNum)>>},
     streams : StreamSets([bucket : {0}, operation : Operations, segment : {1},
                           items : {<<n>> : n \in 1..MaxNum}],
                          MaxBatchEvents, k)]

\* Inputs about addressing: segments 1 and 2 (given unsorted) with 2 and 1
\* objects, events that name any segment and item number
StoreInputs(k) ==
    [segments : {<<Segment(2, 1), Segment(1, 2)>>},
     streams : StreamSets([bucket : {0, 1}, operation : Operations,
                           segment : 1..MaxSegId, items : {<<n>> : n \in 0..MaxItem}],
                          MaxStoreEvents, k)]

\* Inputs about the effect of an item: one segment of MaxNum to MaxItem
\* objects, or segments 1 and 2 (given unsorted) with MaxNum objects and 1;
\* events of either operation that name segment 1 or 2 and items 1 and 2,
\* or one item of any number
EffectInputs(k) ==
    [segments : {<<Segment(1, c)>> : c \in MaxNum..MaxItem}
                    \cup {<<Segment(2, 1), Segment(1, MaxNum)>>},
     streams : StreamSets([bucket : {0, 1}, operation : Operations, segment : 1..2,
                           items : {<<1, 2>>} \cup {<<n>> : n \in 0..MaxItem}],
                          MaxEffectEvents, k)]

\* Inputs about the order of the states: two objects, one event file with
\* events of either operation at two buckets that name object 2 once, or
\* object 1 once or MaxRankItems times
RankInputs(k) ==
    [segments : {<<Segment(1, 2)>>},
     streams : {[s \in 1..k |-> IF s = 1 THEN es ELSE <<>>] :
                   es \in SortedSeqs([bucket : {0, MaxTick}, operation : Operations,
                                      segment : {1},
                                      items : {<<2>>, <<1>>, [i \in 1..MaxRankItems |-> 1]}],
                                     MaxRankEvents)}]

\* Inputs about frame names: one object, Delete events at any buckets
NameInputs(k) ==
    [segments : {<<Segment(1, 1)>>},
     streams : StreamSets([bucket : Buckets, operation : {"Delete"}, segment : {1},
                           items : {<<1>>}], MaxEvents, k)]

\* the numbers of batches already handled that main is taken up at: two
\* short of each power of ten, so that the next frames' indices gain a digit
ResumePoints == {10 ^ d - 2 : d \in 1..(MaxIndexDigits - 1)}

\* main has read the segment files and opened the event files
InitWith(inputs) ==
    \E in \in inputs, checks \in BOOLEAN :
        /\ overflow_checks = checks
        /\ segments = in.segments
        /\ streams = in.streams
        /\ pos = [s \in 1..NumStreams |-> 0]
        /\ offsets = <<>>
        /\ files = <<>>
        /\ image_size = 0
        /\ pc = "start"
        /\ panic = "none"
        /\ buffered = <<>>
        /\ key = 0
        /\ enumerate = 0
        /\ idx = 0
        /\ previous_date_time = <<>>
        /\ first_date_time = <<>>
        /\ previous_group = 0
        /\ total_actions = 0
        /\ event = <<>>
        /\ items = <<>>
        /\ frames = <<>>
        /\ groups = <<>>
        /\ calls = <<>>
        /\ batch_pre = <<>>
        /\ raster = <<>>

Init ==
    InitWith(IndexInputs(NumStreams) \cup LifeInputs(NumStreams) \cup MergeInputs(NumStreams)
                 \cup BatchInputs(NumStreams) \cup StoreInputs(NumStreams))

InitIndex == InitWith(IndexInputs(NumStreams))

InitLife == InitWith(LifeInputs(NumStreams))

InitMerge == InitWith(MergeInputs(NumStreams))

InitBatch == InitWith(BatchInputs(NumStreams))

InitEffect == InitWith(EffectInputs(NumStreams))

InitRank == InitWith(RankInputs(NumStreams))

\* main at the head of its loop (line 256) after `done` batches: the event
\* files began with `done` events of consecutive buckets -done .. -1, each a
\* Delete with no items, which left the one object Present and gave one frame
\* each.  streams holds the rest of the files, pos counts from there, and
\* the histories start empty.  When the rest has events, group_by has read
\* the first of them ahead to end the last batch.
InitResumed(inputs) ==
    \E in \in inputs, checks \in BOOLEAN, done \in ResumePoints :
        /\ overflow_checks = checks
        /\ segments = in.segments
        /\ streams = in.streams
        /\ LET live == {s \in 1..NumStreams : in.streams[s] # <<>>}
               least == {s \in live : \A t \in live :
                            ~(in.streams[t][1].bucket < in.streams[s][1].bucket)}
           IN  IF live = {}
               THEN /\ pos = [s \in 1..NumStreams |-> 0]
                    /\ buffered = <<>>
               ELSE \E s \in least :
                    /\ pos = [t \in 1..NumStreams |-> IF t = s THEN 1 ELSE 0]
                    /\ buffered = <<[id |-> <<s, 1>>, ev |-> in.streams[s][1]]>>
        /\ offsets = Scan(0, in.segments)
        /\ files = [i \in 1..TotalFiles(in.segments) |-> "Present"]
        /\ image_size = ImageSize(TotalFiles(in.segments))
        /\ pc = "groups"
        /\ panic = "none"
        /\ key = -1
        /\ enumerate = done
        /\ idx = done - 1
        /\ previous_date_time = <<-1>>
        /\ first_date_time = <<-done>>
        /\ previous_group = -2
        /\ total_actions = 0
        /\ event = <<>>
        /\ items = <<>>
        /\ frames = <<>>
        /\ groups = <<>>
        /\ calls = <<>>
        /\ batch_pre = [i \in 1..TotalFiles(in.segments) |-> "Present"]
        /\ raster = <<>>

\* a run from its start, or taken up after ResumePoints batches
InitNames == InitWith(NameInputs(NumStreams)) \/ InitResumed(NameInputs(NumStreams))

\* ------------------------------------------------------------ the actions
\* main, up to State::new: sort the segments, total them, scan the offsets
BuildIndex ==
    /\ pc = "start"
    /\ LET sorted == SortByKey(segments)
           total_files == TotalFiles(sorted)
       IN  /\ segments' = sorted
           /\ offsets' = Scan(0, sorted)
           /\ files' = [i \in 1..total_files |-> "Present"]
           /\ image_size' = ImageSize(total_files)
    /\ pc' = "groups"
    /\ UNCHANGED <<overflow_checks, streams, pos, panic, buffered, key, enumerate, idx,
                   previous_date_time, first_date_time, previous_group, total_actions,
                   event, items, frames, groups, calls, batch_pre, raster>>

\* kmerge_by(|a, b| a.bucket < b.bucket): the streams that still have an
\* event, and those among them whose head no other head is less than.  Which
\* of several equal heads comes first is the merge's tie-break.
Live == {s \in 1..NumStreams : pos[s] < Len(streams[s])}

HeadOf(s) == streams[s][pos[s] + 1]

\* a merge that gives the head of any live stream
MinHeads_AnyLive == Live

MinHeads == {s \in Live : \A t \in Live : ~(HeadOf(t).bucket < HeadOf(s).bucket)}

\* the element the merge gives when it reads stream s
Merged(s) == [id |-> <<s, pos[s] + 1>>, ev |-> HeadOf(s)]

\* group_by keeps the element that ended a group to open the next one with
ReadAhead_Dropped(elt) == <<>>

ReadAhead(elt) == <<elt>>

\* a loop whose index never advances
StartGroup_IndexStuck(k) ==
    /\ key' = k
    /\ idx' = enumerate
    /\ enumerate' = enumerate
    /\ previous_group' = IF previous_date_time = <<>> THEN k ELSE previous_date_time[1]
    /\ first_date_time' = IF first_date_time = <<>> THEN <<k>> ELSE first_date_time
    /\ total_actions' = 0
    /\ groups' = Append(groups, [key |-> k, events |-> <<>>])
    /\ batch_pre' = files
    /\ pc' = "events"

\* the head of the loop body for a group with key k (lines 257-271)
StartGroup(k) ==
    /\ key' = k
    /\ idx' = enumerate
    /\ enumerate' = enumerate + 1
    /\ previous_group' = IF previous_date_time = <<>> THEN k ELSE previous_date_time[1]
    /\ first_date_time' = IF first_date_time = <<>> THEN <<k>> ELSE first_date_time
    /\ total_actions' = 0
    /\ groups' = Append(groups, [key |-> k, events |-> <<>>])
    /\ batch_pre' = files
    /\ pc' = "events"

\* the outer for asks group_by for the next (key, group)
GroupNext ==
    /\ pc = "groups"
    /\ IF buffered # <<>>
       THEN /\ StartGroup(buffered[1].ev.bucket)
            /\ UNCHANGED <<pos, buffered>>
       ELSE IF Live = {}
       THEN /\ pc' = "done"
            /\ UNCHANGED <<pos, buffered, key, enumerate, idx, previous_group,
                           first_date_time, total_actions, groups, batch_pre>>
       ELSE \E s \in MinHeads :
            /\ pos' = [pos EXCEPT ![s] = @ + 1]
            /\ buffered' = ReadAhead(Merged(s))
            /\ StartGroup(HeadOf(s).bucket)
    /\ UNCHANGED <<overflow_checks, segments, streams, offsets, files, image_size, panic,
                   previous_date_time, event, items, frames, calls, raster>>

\* an inner loop that leaves out the first item of each event
TakeEvent_FirstItemSkipped(elt) ==
    /\ event' = <<elt>>
    /\ total_actions' = total_actions + Len(elt.ev.items)
    /\ items' = IF elt.ev.items = <<>> THEN <<>> ELSE Tail(elt.ev.items)
    /\ groups' = [groups EXCEPT ![Len(groups)].events = Append(@, elt.id)]
    /\ pc' = IF Len(elt.ev.items) <= 1 THEN "events" ELSE "items"

\* the inner for has an event of the group (lines 273-274)
TakeEvent(elt) ==
    /\ event' = <<elt>>
    /\ total_actions' = total_actions + Len(elt.ev.items)
    /\ items' = elt.ev.items
    /\ groups' = [groups EXCEPT ![Len(groups)].events = Append(@, elt.id)]
    /\ pc' = IF elt.ev.items = <<>> THEN "events" ELSE "items"

\* the inner for asks the group for its next event: the element read ahead,
\* or the next of the merge while its bucket equals the key
EventNext ==
    /\ pc = "events"
    /\ IF buffered # <<>>
       THEN /\ TakeEvent(buffered[1])
            /\ buffered' = <<>>
            /\ UNCHANGED pos
       ELSE IF Live = {}
       THEN /\ pc' = "frame"
            /\ UNCHANGED <<pos, buffered, event, total_actions, items, groups>>
       ELSE \E s \in MinHeads :
            /\ pos' = [pos EXCEPT ![s] = @ + 1]
            /\ IF HeadOf(s).bucket = key
               THEN /\ TakeEvent(Merged(s))
                    /\ UNCHANGED buffered
               ELSE /\ buffered' = ReadAhead(Merged(s))
                    /\ pc' = "frame"
                    /\ UNCHANGED <<event, total_actions, items, groups>>
    /\ UNCHANGED <<overflow_checks, segments, streams, offsets, files, image_size, panic,
                   key, enumerate, idx, previous_date_time, first_date_time,
                   previous_group, frames, calls, batch_pre, raster>>

\* state.set_item(event.segment, item as usize, &event.operation) for the
\* next item of the event (lines 276-278); a panic ends the run
ApplyItem ==
    /\ pc = "items"
    /\ LET ev == event[1].ev
           number == Head(items)
           res == SetItem(offsets, files, ev.segment, number, ev.operation, overflow_checks)
       IN  /\ files' = res.files
           /\ calls' = Append(calls, [event |-> event[1].id, segment |-> ev.segment,
                                      number |-> number, operation |-> ev.operation,
                                      located |-> Locate(offsets, ev.segment, number,
                                                         overflow_checks),
                                      before |-> files, end |-> res.end])
           /\ IF res.end = "ok"
              THEN /\ items' = Tail(items)
                   /\ pc' = IF Tail(items) = <<>> THEN "events" ELSE "items"
                   /\ UNCHANGED panic
              ELSE /\ panic' = res.end
                   /\ pc' = "panic"
                   /\ UNCHANGED items
    /\ UNCHANGED <<overflow_checks, segments, streams, pos, offsets, image_size, buffered,
                   key, enumerate, idx, previous_date_time, first_date_time,
                   previous_group, total_actions, event, frames, groups, batch_pre,
                   raster>>

\* the rest of the loop body (lines 281-351): the rate, the counts, the frame
\* saved under its name, and previous_date_time
SaveFrame ==
    /\ pc = "frame"
    /\ LET actions_per_second ==
               CheckedDivOrZero(total_actions, Timestamp(key) - Timestamp(previous_group))
           duration_since_start == key - first_date_time[1]
       IN  frames' = Append(frames,
               [idx |-> idx,
                save_path |-> FrameName(idx),
                key |-> key,
                previous_group |-> previous_group,
                total_actions |-> total_actions,
                hours |-> TruncDiv(duration_since_start, 3600 * TicksPerSec),
                present |-> CountState(files, "Present"),
                delete_marker |-> CountState(files, "DeleteMarker"),
                expired |-> CountState(files, "Expired"),
                delete_marker_deleted |-> CountState(files, "DeleteMarkerDeleted"),
                weird_case |-> CountState(files, "WeirdCase"),
                actions_per_second |-> actions_per_second,
                files |-> files])
    /\ previous_date_time' = <<key>>
    /\ pc' = "groups"
    /\ UNCHANGED <<overflow_checks, segments, streams, pos, offsets, files, image_size,
                   panic, buffered, key, enumerate, idx, first_date_time, previous_group,
                   total_actions, event, items, groups, calls, batch_pre, raster>>

Next == BuildIndex \/ GroupNext \/ EventNext \/ ApplyItem \/ SaveFrame

\* every input
Spec == Init /\ [][Next]_vars

\* the inputs about the index, the life cycle, the merge, and batches
SpecIndex == InitIndex /\ [][Next]_vars

SpecLife == InitLife /\ [][Next]_vars

SpecMerge == InitMerge /\ [][Next]_vars

SpecBatch == InitBatch /\ [][Next]_vars

\* the inputs about the effect of an item
SpecEffect == InitEffect /\ [][Next]_vars

\* the inputs about the order of the states
SpecRank == InitRank /\ [][Next]_vars

\* the inputs about frame names
SpecNames == InitNames /\ [][Next]_vars

\* ------------------------------------------------- the raster of a State
\* State::new and get_frame taken by themselves, for object counts that the
\* arrays of main above cannot hold: raster is <<>>, or a State (its files
\* as in FilesNew, its image_size) and, once a pixel of its frame has been
\* computed, the pixel.
\* the object counts: the small ones, and those about 2^32
TotalSizes ==
    {Wide(n) : n \in 0..MaxRasterTotal}
        \cup {<<U32Hi - 1, WideBase - 1>>, <<U32Hi, 0>>, <<U32Hi, 1>>}

\* the coordinates looked at: all of a small frame, the first and last two
\* of a large one
Coordinates(side) ==
    IF side <= MaxRasterTotal THEN 0..(side - 1) ELSE {0, 1, side - 2, side - 1}

\* State::new(offsets, total_size, output_image_size)
StateNew ==
    /\ raster = <<>>
    /\ \E total_size \in TotalSizes :
          raster' = [at |-> "state", files |-> FilesNew(total_size),
                     image_size |-> ImageSizeWide(total_size)]
    /\ UNCHANGED main_vars

\* set_item on one of the first objects of the State
RasterSetItem ==
    /\ raster # <<>> /\ raster.at = "state"
    /\ \E number \in 1..Len(raster.files.head), operation \in Operations :
          LET res == SetItem(<<0>>, raster.files.head, 1, number, operation, overflow_checks)
          IN  /\ res.end = "ok"
              /\ raster' = [raster EXCEPT !.files.head = res.files]
    /\ UNCHANGED main_vars

\* get_frame: from_fn calls the closure for every x, y below image_size;
\* one of these calls
GetFrame ==
    /\ raster # <<>> /\ raster.at = "state"
    /\ \E x \in Coordinates(raster.image_size), y \in Coordinates(raster.image_size) :
          raster' = [at |-> "pixel", files |-> raster.files,
                     image_size |-> raster.image_size, x |-> x, y |-> y,
                     located |-> PixelIdx(raster.image_size, x, y, overflow_checks),
                     pixel |-> GetFramePixel(raster.files, raster.image_size, x, y,
                                             overflow_checks)]
    /\ UNCHANGED main_vars

NextRaster == StateNew \/ RasterSetItem \/ GetFrame

InitRaster == InitWith({[segments |-> <<>>, streams |-> [s \in 1..NumStreams |-> <<>>]]})

SpecRaster == InitRaster /\ [][NextRaster]_vars

TypeOK ==
    /\ pc \in {"start", "groups", "events", "items", "frame", "done", "panic"}
    /\ panic \in {"none", "bounds", "overflow", "diagnostic", "transition"}
    /\ \A i \in 1..Len(files) : files[i] \in FileStates

\* ================================================================ claims
\* the set_item calls that reached an object, and the object each reached
Reached(c) == c.located.end = "ok" /\ c.located.idx < Len(c.before)

\* the operations set_item was called with for object i (0-based), in order
OpsOn(i) == SelectSeq(calls, LAMBDA c : Reached(c) /\ c.located.idx = i)

\* the transition table as the specification gives it
TableOfSpec(operation, state) ==
    CASE state = "Present" -> IF operation = "Delete" THEN "DeleteMarker"
                              ELSE "DeleteMarkerDeleted"
      [] state = "DeleteMarker" -> IF operation = "Delete" THEN "DeleteMarkerDeleted"
                                   ELSE "Expired"
      [] state = "Expired" -> IF operation = "Delete" THEN "WeirdCase"
                              ELSE "DeleteMarkerDeleted"
      [] state = "DeleteMarkerDeleted" -> "WeirdCase"
      [] state = "WeirdCase" -> "WeirdCase"

RECURSIVE FoldTable(_, _)
FoldTable(state, cs) ==
    IF cs = <<>> THEN state
    ELSE FoldTable(TableOfSpec(Head(cs).operation, state), Tail(cs))

\* C1: every object starts Present, and after any sequence of Delete/Expire
\* operations applied to it through set_item its state is the fold of the
\* specification's transition table over that sequence.
C1_StateIsFoldOfTable ==
    pc # "start" =>
        \A i \in 0..(Len(files) - 1) : files[i + 1] = FoldTable("Present", OpsOn(i))

\* C2: no sequence of in-range Delete/Expire events ever reaches the
\* catch-all fatal arm of set_item's match.
C2_NoTransitionAbort == panic # "transition"

\* the object the next set_item call addresses
Target == Locate(offsets, event[1].ev.segment, Head(items), overflow_checks)

\* C7: WeirdCase is absorbing: an object in WeirdCase stays in WeirdCase in
\* every step, and a Delete or Expire applied to it does not abort the run.
C7_WeirdCaseAbsorbing ==
    [][/\ \A i \in 1..Len(files) :
              files[i] = "WeirdCase" => Len(files') = Len(files) /\ files'[i] = "WeirdCase"
       /\ (pc = "items" /\ Target.end = "ok" /\ Target.idx < Len(files)
              /\ files[Target.idx + 1] = "WeirdCase")
          => (pc' # "panic" /\ panic' = "none")]_vars

\* an operation has been applied to an object that was already in WeirdCase
C7_Witness ==
    \E n \in 1..Len(calls) :
        /\ Reached(calls[n])
        /\ calls[n].before[calls[n].located.idx + 1] = "WeirdCase"
        /\ calls[n].end = "ok"
        /\ files[calls[n].located.idx + 1] = "WeirdCase"

\* ------------------------------------------------------------------- C3
\* the batch loop (lines 273-279) as a function: the items of one event,
\* then the events of a batch given by their ids, applied in order; a panic
\* ends the application
RECURSIVE ApplyItems(_, _, _)
ApplyItems(res, ev, its) ==
    IF res.end # "ok" \/ its = <<>> THEN res
    ELSE ApplyItems(SetItem(offsets, res.files, ev.segment, Head(its), ev.operation,
                            overflow_checks), ev, Tail(its))

RECURSIVE ApplyEvents(_, _)
ApplyEvents(res, ids) ==
    IF res.end # "ok" \/ ids = <<>> THEN res
    ELSE LET ev == streams[Head(ids)[1]][Head(ids)[2]]
         IN  ApplyEvents(ApplyItems(res, ev, ev.items), Tail(ids))

\* the events of the current batch, in the order they were applied
BatchEvents == groups[Len(groups)].events

\* the orders the merge can give the events of a batch in: every order that
\* keeps the events of one stream in their file order
Orders(ids) ==
    {p \in [1..Len(ids) -> 1..Len(ids)] :
        /\ \A i, j \in 1..Len(ids) : i # j => p[i] # p[j]
        /\ \A i, j \in 1..Len(ids) :
              (i < j /\ ids[p[i]][1] = ids[p[j]][1]) => ids[p[i]][2] < ids[p[j]][2]}

Reorder(ids, p) == [i \in 1..Len(ids) |-> ids[p[i]]]

\* the objects an event addresses
ObjectsOf(id) ==
    LET ev == streams[id[1]][id[2]]
    IN  {Locate(offsets, ev.segment, ev.items[n], overflow_checks).idx :
            n \in 1..Len(ev.items)}

\* no object is addressed by a Delete and by an Expire of the batch
SingleOperationPerObject(ids) ==
    \A i, j \in 1..Len(ids) :
        streams[ids[i][1]][ids[i][2]].operation # streams[ids[j][1]][ids[j][2]].operation
            => ObjectsOf(ids[i]) \cap ObjectsOf(ids[j]) = {}

\* C3 as stated: once a batch has been fully applied, applying its events
\* to the same pre-state in any other order gives the same state array.
C3_AnyOrderSameState ==
    pc = "frame" =>
        \A p \in Orders(BatchEvents) :
            ApplyEvents([files |-> batch_pre, end |-> "ok"], Reorder(BatchEvents, p))
                = [files |-> files, end |-> "ok"]

\* C3 amended: the same, for a batch in which no object is addressed by both
\* a Delete and an Expire.
C3_AnyOrderSameStateSingleOperation ==
    (pc = "frame" /\ SingleOperationPerObject(BatchEvents)) =>
        \A p \in Orders(BatchEvents) :
            ApplyEvents([files |-> batch_pre, end |-> "ok"], Reorder(BatchEvents, p))
                = [files |-> files, end |-> "ok"]

\* a fully applied batch of two events from different streams that changed
\* two objects, with one operation per object
C3_Witness ==
    /\ pc = "frame"
    /\ SingleOperationPerObject(BatchEvents)
    /\ \E i, j \in 1..Len(BatchEvents) : BatchEvents[i][1] # BatchEvents[j][1]
    /\ Cardinality({i \in 1..Len(files) : files[i] # batch_pre[i]}) >= 2

\* ------------------------------------------------------------------- C4
\* the counts of the first n segments, added up
RECURSIVE SumOfCounts(_)
SumOfCounts(n) == IF n = 0 THEN 0 ELSE SumOfCounts(n - 1) + segments[n].num

\* what C4 says of the index once it is built
IndexAsClaimed ==
    /\ \A i \in 1..(Len(segments) - 1) : segments[i].segment < segments[i + 1].segment
    /\ Len(offsets) = Len(segments)
    /\ \A i \in 1..Len(segments) : offsets[i] = SumOfCounts(i - 1)
    /\ Len(files) = SumOfCounts(Len(segments))
    /\ \A i \in 1..Len(segments) :
          LET loc == Locate(offsets, segments[i].segment, 1, overflow_checks)
          IN  loc.end = "ok" /\ loc.idx = offsets[i]

\* the segment ids are exactly 1..N
IdsAreOneToN == \A i \in 1..Len(segments) : segments[i].segment = i

\* C4 as stated: for segments with distinct ids, sorted by id, the offsets
\* are the exclusive prefix sums of the counts, and the lookup of
\* (segment_i, 1) gives offsets[i].
C4_PrefixSumAndLocate == pc # "start" => IndexAsClaimed

\* C4 amended: the same, for segments whose ids are exactly 1..N.
C4_PrefixSumAndLocateIdsOneToN == (pc # "start" /\ IdsAreOneToN) => IndexAsClaimed

\* an index built over two segments with ids 1 and 2, the first not empty
C4_Witness ==
    /\ pc # "start"
    /\ Len(segments) = 2
    /\ IdsAreOneToN
    /\ offsets[2] > 0

\* ------------------------------------------------------------------- C5
\* C5: the batches come in strictly ascending bucket order, so no bucket is
\* the key of two batches.
C5_BatchesStrictlyAscending ==
    \A i, j \in 1..Len(groups) : i < j => groups[i].key < groups[j].key

\* three batches have been given, and both streams have been read from
C5_Witness ==
    /\ Len(groups) = 3
    /\ \A s \in 1..2 : pos[s] > 0

\* ------------------------------------------------------------------- C6
\* where in the batches an event was placed
Placements(id) ==
    {gk \in UNION {{<<g, k>> : k \in 1..Len(groups[g].events)} : g \in 1..Len(groups)} :
        groups[gk[1]].events[gk[2]] = id}

AllBuckets ==
    UNION {{streams[s][p].bucket : p \in 1..Len(streams[s])} : s \in 1..NumStreams}

\* C6: an event read from a stream is in exactly one batch, the one keyed by
\* its bucket (or is the element read ahead, about to open its batch); an
\* event not yet read is in none; and a run that ends without abort has read
\* every event and saved as many frames as there are distinct buckets.
C6_EveryEventInItsBatch ==
    /\ \A s \in 1..NumStreams : \A p \in 1..Len(streams[s]) :
          IF p > pos[s] \/ (buffered # <<>> /\ buffered[1].id = <<s, p>>)
          THEN Placements(<<s, p>>) = {}
          ELSE /\ Cardinality(Placements(<<s, p>>)) = 1
               /\ \A gk \in Placements(<<s, p>>) : groups[gk[1]].key = streams[s][p].bucket
    /\ pc = "done" =>
          /\ \A s \in 1..NumStreams : pos[s] = Len(streams[s])
          /\ Len(frames) = Cardinality(AllBuckets)

\* a finished run in which two streams had events of the same bucket and
\* there were two batches
C6_Witness ==
    /\ pc = "done"
    /\ Len(frames) = 2
    /\ \E g \in 1..Len(groups) : \E i, j \in 1..Len(groups[g].events) :
          groups[g].events[i][1] # groups[g].events[j][1]

\* ------------------------------------------------------------------- C8
\* the items of the events of batch g
RECURSIVE ItemsOf(_)
ItemsOf(ids) ==
    IF ids = <<>> THEN 0
    ELSE Len(streams[Head(ids)[1]][Head(ids)[2]].items) + ItemsOf(Tail(ids))

\* whole seconds between batch g and the batch before it (itself, if first)
ElapsedSeconds(g) ==
    (groups[g].key \div TicksPerSec)
        - (groups[IF g = 1 THEN 1 ELSE g - 1].key \div TicksPerSec)

\* C8: the rate of a batch is 0 when no whole second lies between it and the
\* batch before it (as for the first batch), else the number of its items
\* floor-divided by the seconds elapsed.
C8_Rate ==
    \A g \in 1..Len(frames) :
        frames[g].actions_per_second =
            IF ElapsedSeconds(g) = 0 THEN 0
            ELSE ItemsOf(groups[g].events) \div ElapsedSeconds(g)

\* frames exist for a first batch with items, for a later batch in the same
\* second, and for a batch whose items the seconds elapsed do not divide
C8_Witness ==
    /\ frames # <<>> /\ ItemsOf(groups[1].events) > 0
    /\ \E g \in 2..Len(frames) : ElapsedSeconds(g) = 0 /\ ItemsOf(groups[g].events) > 0
    /\ \E g \in 2..Len(frames) :
          /\ ElapsedSeconds(g) > 1
          /\ ItemsOf(groups[g].events) % ElapsedSeconds(g) # 0

\* ------------------------------------------------------------------- C9
\* the index offsets[segment - 1] + number - 1 of a call is not that of an
\* object: the segment is beyond the offset table, or the sum is out of range
OutOfRange(c) ==
    \/ c.segment - 1 \notin 0..(Len(offsets) - 1)
    \/ offsets[c.segment] + c.number - 1 \notin 0..(Len(c.before) - 1)

\* C9: a call whose index is out of range ends the run there with the
\* diagnostic panic: it is the last call, it changed no object, and its
\* batch has no frame.
C9_OutOfRangeIsDiagnosed ==
    \A n \in 1..Len(calls) :
        OutOfRange(calls[n]) =>
            /\ calls[n].end = "diagnostic"
            /\ n = Len(calls)
            /\ pc = "panic"
            /\ files = calls[n].before
            /\ Len(frames) < Len(groups)

\* ------------------------------------------------------------------ C10
\* C10: the frames are numbered 0, 1, 2, ... in the order of their batches,
\* so a smaller index goes with a strictly smaller bucket, and the first
\* frame is saved as 0000.
C10_FrameIndexSequential ==
    /\ \A k \in 1..Len(frames) : frames[k].idx = k - 1 /\ frames[k].key = groups[k].key
    /\ \A i, j \in 1..Len(frames) :
          frames[i].idx < frames[j].idx => frames[i].key < frames[j].key
    /\ frames # <<>> => frames[1].save_path = <<0, 0, 0, 0>>

\* three frames have been saved
C10_Witness == Len(frames) = 3

\* ------------------------------------------------------------------ C11
\* byte-wise string order of two names given by their digits; the names end
\* in ".png", and "." sorts before every digit, so a name that is a proper
\* prefix of another sorts first
RECURSIVE LexLess(_, _)
LexLess(a, b) ==
    IF b = <<>> THEN FALSE
    ELSE IF a = <<>> THEN TRUE
    ELSE IF Head(a) # Head(b) THEN Head(a) < Head(b)
    ELSE LexLess(Tail(a), Tail(b))

\* C11: for any number of batches, the frame names sort as strings exactly
\* as the frames are ordered in time: of two frames, the name of the earlier
\* sorts strictly before the name of the later.
C11_NamesSortAsFrames ==
    \A i, j \in 1..Len(frames) :
        i < j => LexLess(frames[i].save_path, frames[j].save_path)

\* ------------------------------------------------------------------ C12
\* the objects the events of a batch address, and the items they hold
RECURSIVE AddressedBy(_)
AddressedBy(ids) ==
    IF ids = <<>> THEN {} ELSE ObjectsOf(Head(ids)) \cup AddressedBy(Tail(ids))

\* a batch of Delete events that address objects which were Present when the
\* batch began, each object once
DeleteBatchOverPresent(ids) ==
    /\ ids # <<>>
    /\ \A n \in 1..Len(ids) : streams[ids[n][1]][ids[n][2]].operation = "Delete"
    /\ \A i \in AddressedBy(ids) : batch_pre[i + 1] = "Present"
    /\ Cardinality(AddressedBy(ids)) = ItemsOf(ids)

\* the one segment of three objects and the one batch, a Delete of items 1
\* and 2, of the specification's scenario A
ScenarioA ==
    /\ segments = <<Segment(1, 3)>>
    /\ Len(groups[1].events) = 1
    /\ LET ev == streams[groups[1].events[1][1]][groups[1].events[1][2]]
       IN  ev.operation = "Delete" /\ ev.segment = 1 /\ ev.items = <<1, 2>>

\* C12: a set_item call changes at most the element at index
\* offsets[segment - 1] + number - 1 and leaves every other element, the
\* offset table and the array length as they were; so a batch of Deletes
\* over Present objects leaves exactly those objects DeleteMarker and every
\* other object as it was, and scenario A gives the frame 0000 with
\* [DeleteMarker, DeleteMarker, Present] and the counts 1, 2, 0, 0, 0.
C12_OneItemOneElement ==
    /\ [][pc = "items" =>
              /\ offsets' = offsets
              /\ Len(files') = Len(files)
              /\ \A i \in 0..(Len(files) - 1) :
                    files'[i + 1] # files[i + 1] =>
                        i = offsets[event[1].ev.segment] + Head(items) - 1]_vars
    /\ [](pc = "frame" /\ DeleteBatchOverPresent(BatchEvents) =>
              /\ files = [i \in 1..Len(batch_pre) |->
                              IF i - 1 \in AddressedBy(BatchEvents) THEN "DeleteMarker"
                              ELSE batch_pre[i]]
              /\ CountState(files, "DeleteMarker")
                    = CountState(batch_pre, "DeleteMarker") + ItemsOf(BatchEvents)
              /\ CountState(files, "Present")
                    = CountState(batch_pre, "Present") - ItemsOf(BatchEvents))
    /\ [](frames # <<>> /\ ScenarioA =>
              /\ frames[1].files = <<"DeleteMarker", "DeleteMarker", "Present">>
              /\ frames[1].save_path = <<0, 0, 0, 0>>
              /\ frames[1].present = 1
              /\ frames[1].delete_marker = 2
              /\ frames[1].expired = 0
              /\ frames[1].delete_marker_deleted = 0
              /\ frames[1].weird_case = 0)

\* the frame of scenario A has been saved
C12_Witness == frames # <<>> /\ ScenarioA

\* ------------------------------------------------------------------ C13
\* the events of the batches 1 .. k, in the order they were given
RECURSIVE EventsUpTo(_)
EventsUpTo(k) == IF k = 0 THEN <<>> ELSE EventsUpTo(k - 1) \o groups[k].events

\* the events of the input whose bucket is at most t
EventsNotAfter(t) ==
    UNION {{<<s, p>> : p \in {q \in 1..Len(streams[s]) : streams[s][q].bucket <= t}} :
              s \in 1..NumStreams}

\* the set_item calls made for an event
CallsFor(id) == SelectSeq(calls, LAMBDA c : c.event = id)

\* C13: batches are handled one after the other: while a batch is being
\* applied the frames of all earlier batches, and no other, have been saved;
\* a frame is saved only when every item of every event of its batch has
\* been applied; and frame k shows the state that the events of bucket at
\* most t_k, and no others, produce from the all-Present array.
C13_BatchSequential ==
    /\ pc \in {"start", "groups", "done"} => Len(frames) = Len(groups)
    /\ pc \in {"events", "items", "frame", "panic"} => Len(frames) = Len(groups) - 1
    /\ pc = "items" => event[1].id = BatchEvents[Len(BatchEvents)]
    /\ \A n \in 1..Len(calls) :
          \E g \in 1..Len(groups) :
              /\ \E e \in 1..Len(groups[g].events) : groups[g].events[e] = calls[n].event
              /\ g <= Len(frames) => calls[n].end = "ok"
    /\ pc = "frame" =>
          /\ items = <<>>
          /\ \A e \in 1..Len(BatchEvents) :
                Len(CallsFor(BatchEvents[e]))
                    = Len(streams[BatchEvents[e][1]][BatchEvents[e][2]].items)
    /\ \A k \in 1..Len(frames) :
          /\ frames[k].key = groups[k].key
          /\ {EventsUpTo(k)[e] : e \in 1..Len(EventsUpTo(k))} = EventsNotAfter(frames[k].key)
          /\ Len(EventsUpTo(k)) = Cardinality(EventsNotAfter(frames[k].key))
          /\ \A e \in 1..Len(EventsUpTo(k)) :
                Len(CallsFor(EventsUpTo(k)[e]))
                    = Len(streams[EventsUpTo(k)[e][1]][EventsUpTo(k)[e][2]].items)
          /\ [files |-> frames[k].files, end |-> "ok"]
                = ApplyEvents([files |-> [i \in 1..Len(files) |-> "Present"], end |-> "ok"],
                              EventsUpTo(k))

\* two frames have been saved, the first after a batch of two events from
\* different streams, and the frames differ
C13_Witness ==
    /\ Len(frames) = 2
    /\ Len(groups[1].events) = 2
    /\ groups[1].events[1][1] # groups[1].events[2][1]
    /\ frames[1].files # frames[2].files

\* ------------------------------------------------------------------ C14
\* the colours the specification gives the states
ColourOf(v) ==
    CASE v = "Present" -> "green"
      [] v = "DeleteMarker" -> "yellow"
      [] v = "Expired" -> "red"
      [] v \in {"DeleteMarkerDeleted", "WeirdCase"} -> "black"

ColourName(rgb) ==
    CASE rgb = <<0, 255, 0>> -> "green"
      [] rgb = <<255, 255, 0>> -> "yellow"
      [] rgb = <<255, 0, 0>> -> "red"
      [] rgb = <<0, 0, 0>> -> "black"
      [] OTHER -> "none"

\* y * side + x, exactly
Flattened == WideAdd(WideMul(raster.y, raster.image_size), raster.x)

\* C14: for every object count n the side of the raster is floor(sqrt(n))
\* + 1, so side * side > n; the pixel (x, y) with y * side + x < n has the
\* colour of the state of object y * side + x, every other pixel is black,
\* and the index computed for a pixel is y * side + x, never wrapped.
C14_RasterShowsEveryObject ==
    /\ (raster # <<>>) =>
          /\ ~WideLess(raster.files.len,
                       WideMul(raster.image_size - 1, raster.image_size - 1))
          /\ WideLess(raster.files.len, WideMul(raster.image_size, raster.image_size))
    /\ (raster # <<>> /\ raster.at = "pixel") =>
          /\ raster.located = [end |-> "ok", idx |-> Flattened]
          /\ raster.pixel # "overflow"
          /\ ColourName(raster.pixel)
                = IF WideLess(Flattened, raster.files.len)
                  THEN ColourOf(IF Flattened[1] = 0 /\ Flattened[2] < Len(raster.files.head)
                                THEN raster.files.head[Flattened[2] + 1] ELSE "Present")
                  ELSE "black"

\* ------------------------------------------------------------------ C15
\* Present < DeleteMarker < Expired < DeleteMarkerDeleted < WeirdCase
Rank(v) ==
    CASE v = "Present" -> 0
      [] v = "DeleteMarker" -> 1
      [] v = "Expired" -> 2
      [] v = "DeleteMarkerDeleted" -> 3
      [] v = "WeirdCase" -> 4

\* the array a set_item call left
After(n) == IF n = Len(calls) THEN files ELSE calls[n + 1].before

\* the set_item calls that changed the state of object i (0-based)
Changes(i) == {n \in 1..Len(calls) : After(n)[i + 1] # calls[n].before[i + 1]}

\* C15: no step lowers the rank of an object's state; an object that has
\* left Present is never Present again; the Present count does not grow
\* from one frame to the next; and no object changes state more than 4
\* times in a run.
C15_RankNeverLowered ==
    /\ [][pc # "start" =>
              /\ Len(files') = Len(files)
              /\ \A i \in 1..Len(files) :
                    /\ Rank(files'[i]) >= Rank(files[i])
                    /\ files[i] # "Present" => files'[i] # "Present"]_vars
    /\ [](\A n \in 1..Len(calls) : \A i \in 1..Len(files) :
              /\ Rank(After(n)[i]) >= Rank(calls[n].before[i])
              /\ calls[n].before[i] # "Present" => files[i] # "Present")
    /\ [](\A g, h \in 1..Len(frames) : g < h => frames[g].present >= frames[h].present)
    /\ [](\A i \in 0..(Len(files) - 1) : Cardinality(Changes(i)) <= 4)

\* an object has changed state 4 times, and the Present count has gone down
\* from one frame to the next
C15_Witness ==
    /\ \E i \in 0..(Len(files) - 1) : Cardinality(Changes(i)) = 4
    /\ \E g, h \in 1..Len(frames) : g < h /\ frames[g].present > frames[h].present

\* ------------------------------------------------------------------ C16
\* C16: the five counts of every frame add up to the total object count,
\* and from State::new on the array has that length.
C16_CountsAddUp ==
    /\ pc # "start" => Len(files) = TotalFiles(segments)
    /\ \A k \in 1..Len(frames) :
          /\ Len(frames[k].files) = TotalFiles(segments)
          /\ frames[k].present + frames[k].delete_marker + frames[k].expired
                + frames[k].delete_marker_deleted + frames[k].weird_case
                = TotalFiles(segments)

\* two frames, the later with two objects in different states other than
\* Present
C16_Witness ==
    /\ Len(frames) = 2
    /\ frames[2].present = 0
    /\ frames[2].files[1] # frames[2].files[2]

\* ------------------------------------------------------------------ C17
\* the valid addresses: a segment of the table and a number from 1 to its
\* count
ValidAddresses ==
    UNION {{<<sg, n>> : n \in 1..segments[sg].num} : sg \in 1..Len(segments)}

\* the index set_item computes for an address
IndexOf(a) == Locate(offsets, a[1], a[2], overflow_checks)

\* the indices of the objects of segment sg
RangeOf(sg) == offsets[sg]..(offsets[sg] + segments[sg].num - 1)

====
